---- MODULE Spec2Model ----
(***************************************************************************)
(* Chat session controller of src/App.tsx: the three React state hooks     *)
(* (messages, input, isLoading), the handler handleSubmit closed over the  *)
(* values of the current render, the onChange handler of the input field   *)
(* and the continuation of handleSubmit after the awaited service call.    *)
(*                                                                         *)
(* messages, input and isLoading are the values held by the hooks, that    *)
(* is, the result of every setMessages / setInput / setIsLoading call made *)
(* so far.  rendered is the snapshot of them that the last render of App   *)
(* took: the constants `input` and `isLoading` that the handleSubmit of    *)
(* that render reads, and the props the JSX of that render shows.  A set   *)
(* call changes the hook at once and the constants of a render never: a    *)
(* handler sees the new values only after the next render.                 *)
(***************************************************************************)
EXTENDS Integers, Sequences, FiniteSets, TLC

VARIABLES messages, input, isLoading, rendered, inflight, dispatched,
          uuidCount, now, uncaught, lastEvent

vars == <<messages, input, isLoading, rendered, inflight, dispatched,
          uuidCount, now, uncaught, lastEvent>>

\* ------------------------------------------------------------------ bounds
\* Accepted submissions per run, and the last value of the clock.
MaxSubmits == 2
MaxTime == 1

\* ------------------------------------------------------------------- texts
\* A text is a sequence of characters; " " stands for the white space that
\* trim removes, "a" for any other character.
Chars == {"a", " "}

IsSpace(c) == c = " "

\* The texts the input field is given: empty, white space only, plain, and
\* padded with white space on both sides.
InputTexts == {<<>>, <<" ">>, <<"a">>, <<" ", "a", " ">>}

\* The texts the service answers with: empty, and a text that starts with
\* white space.
ReplyTexts == {<<>>, <<" ", "a">>}

\* String.prototype.trim: drop leading and trailing white space.
RECURSIVE TrimStart(_)
TrimStart(s) ==
  IF s # <<>> /\ IsSpace(Head(s)) THEN TrimStart(Tail(s)) ELSE s

RECURSIVE TrimEnd(_)
TrimEnd(s) ==
  IF s # <<>> /\ IsSpace(s[Len(s)])
  THEN TrimEnd(SubSeq(s, 1, Len(s) - 1))
  ELSE s

Trim(s) == TrimEnd(TrimStart(s))

\* The two fixed strings of handleSubmit; neither is a text the keyboard
\* alphabet above can spell.
FALLBACK_TEXT ==
  <<"The server ignored you. Probably because your request was mid.">>
ERROR_TEXT ==
  <<"CRITICAL ERROR: My brain just segfaulted trying to process that junk.">>

\* What generateContent can resolve with: response.text absent (undefined),
\* or present with any text, the empty one included.
Responses ==
  {[present |-> FALSE, text |-> <<>>]}
    \cup {[present |-> TRUE, text |-> t] : t \in ReplyTexts}

\* What the try block can throw or the call can reject with.
Errors == {"network", "api"}

\* --------------------------------------------------------------- messages
Message(id, role, content, timestamp) ==
  [id |-> id, role |-> role, content |-> content, timestamp |-> timestamp]

\* Variant: the reply is trimmed before it is shown.
ReplyContentTrimmed(response) ==
  IF response.present /\ Trim(response.text) # <<>>
  THEN Trim(response.text)
  ELSE FALLBACK_TEXT

\* Variant: response.text ?? fallback, which keeps an empty text.
ReplyContentNullish(response) ==
  IF response.present THEN response.text ELSE FALLBACK_TEXT

\* response.text || "The server ignored you. ..."
ReplyContent(response) ==
  IF response.present /\ response.text # <<>>
  THEN response.text
  ELSE FALLBACK_TEXT

\* Variant: the message shows the error.
CatchShowsError(error) ==
  [content |-> <<error>>, rethrown |-> FALSE, retried |-> FALSE]

\* Variant: the catch clause calls generateContent again.
CatchRetries(error) ==
  [content |-> ERROR_TEXT, rethrown |-> FALSE, retried |-> TRUE]

\* catch (error): the content of the synthetic message, whether the error
\* leaves handleSubmit and whether the clause makes a further request.
CatchClause(error) ==
  [content |-> ERROR_TEXT, rethrown |-> FALSE, retried |-> FALSE]

\* The requests a catch clause makes for the prompt it failed on.
Retry(caught, contents) ==
  IF caught.retried
  THEN {[rid |-> dispatched + 1, contents |-> contents]}
  ELSE {}

\* Variant: setIsLoading(false) as the last statement of the try block.
FinallyOnlyAfterTry(outcome) == outcome # "resolved"

\* finally { setIsLoading(false) }: the value the flag is given when the
\* try statement is left with `outcome`.
FinallyClause(outcome) == FALSE

\* Variant: [message, ...prev].
PrependMessage(prev, message) == <<message>> \o prev

\* setMessages(prev => [...prev, message])
AppendMessage(prev, message) == Append(prev, message)

\* Variant: if (!input || isLoading) return;
RejectedWithoutTrim(snapshot) == snapshot.input = <<>> \/ snapshot.isLoading

\* Variant: const userText = input;
UserTextUntrimmed(text) == text

\* const userText = input.trim();
UserText(text) == Trim(text)

\* if (!input.trim() || isLoading) return;   on the values of the render
Rejected(snapshot) == Trim(snapshot.input) = <<>> \/ snapshot.isLoading

\* The values a render of App reads from the three hooks.
Snapshot == [messages |-> messages, input |-> input, isLoading |-> isLoading]

Event(op, arg) == [op |-> op, arg |-> arg]

\* Variant: the id is taken from the clock, as String(Date.now()).
IdFromClock(k) == now

\* crypto.randomUUID(): the k-th identifier generated in the running
\* handler, different from every identifier generated before.
RandomUUID(k) == uuidCount + k

\* ------------------------------------------------------------------- init
Init ==
  /\ messages = <<>>
  /\ input = <<>>
  /\ isLoading = FALSE
  /\ rendered = [messages |-> <<>>, input |-> <<>>, isLoading |-> FALSE]
  /\ inflight = {}
  /\ dispatched = 0
  /\ uuidCount = 0
  /\ now = 0
  /\ uncaught = {}
  /\ lastEvent = Event("mount", <<>>)

\* ---------------------------------------------------------------- actions
\* Variant: <input disabled={isLoading} ... />
InputDisabledWhileLoading == ~rendered.isLoading

\* <input type="text" value={input} onChange=... /> has no disabled
\* attribute: the field takes changes in every render.
InputEnabled == TRUE

\* onChange={(e) => setInput(e.target.value)}
InputChange ==
  \E value \in InputTexts :
    /\ InputEnabled
    /\ input' = value
    /\ lastEvent' = Event("change", <<>>)
    /\ UNCHANGED <<messages, isLoading, rendered, inflight, dispatched,
                   uuidCount, now, uncaught>>

\* React re-renders App with the values the hooks hold; the new render's
\* handleSubmit closes over them.
Render ==
  /\ rendered # Snapshot
  /\ rendered' = Snapshot
  /\ lastEvent' = Event("render", <<>>)
  /\ UNCHANGED <<messages, input, isLoading, inflight, dispatched,
                 uuidCount, now, uncaught>>

\* The clock read by new Date() advances.
Tick ==
  /\ now < MaxTime
  /\ now' = now + 1
  /\ UNCHANGED <<messages, input, isLoading, rendered, inflight, dispatched,
                 uuidCount, uncaught, lastEvent>>

\* handleSubmit, guard taken: return before any effect.
SubmitRejected ==
  /\ Rejected(rendered)
  /\ lastEvent' = Event("submit", [accepted |-> FALSE, threw |-> FALSE])
  /\ UNCHANGED <<messages, input, isLoading, rendered, inflight, dispatched,
                 uuidCount, now, uncaught>>

\* The submissions accepted so far (one user message each) stay below the
\* bound of the model.
HasRoom ==
  Cardinality({i \in DOMAIN messages : messages[i].role = "user"})
    < MaxSubmits

\* handleSubmit up to the await: the user message, setInput(''),
\* setIsLoading(true), then the request with contents: userText.
SubmitDispatched ==
  /\ ~Rejected(rendered)
  /\ HasRoom
  /\ LET userText == UserText(rendered.input)
         userMessage == Message(RandomUUID(1), "user", userText, now)
     IN /\ messages' = AppendMessage(messages, userMessage)
        /\ input' = <<>>
        /\ isLoading' = TRUE
        /\ inflight' = inflight \cup
                         {[rid |-> dispatched + 1, contents |-> userText]}
        /\ dispatched' = dispatched + 1
        /\ uuidCount' = uuidCount + 1
        /\ lastEvent' = Event("submit", [accepted |-> TRUE, threw |-> FALSE])
  /\ UNCHANGED <<rendered, now, uncaught>>

\* handleSubmit when the try block throws before the call is made (reading
\* the key, constructing the client): catch and finally run in the same
\* synchronous turn.
SubmitThrew ==
  /\ ~Rejected(rendered)
  /\ HasRoom
  /\ \E error \in Errors :
       LET userText == UserText(rendered.input)
           userMessage == Message(RandomUUID(1), "user", userText, now)
           caught == CatchClause(error)
           errorMessage == Message(RandomUUID(2), "assistant",
                                   caught.content, now)
       IN /\ messages' = AppendMessage(AppendMessage(messages, userMessage),
                                      errorMessage)
          /\ input' = <<>>
          /\ isLoading' = FinallyClause("threw")
          /\ uuidCount' = uuidCount + 2
          /\ uncaught' = IF caught.rethrown THEN uncaught \cup {error}
                                            ELSE uncaught
          /\ inflight' = inflight \cup Retry(caught, userText)
          /\ dispatched' = dispatched + Cardinality(Retry(caught, userText))
          /\ lastEvent' = Event("submit", [accepted |-> TRUE, threw |-> TRUE])
  /\ UNCHANGED <<rendered, now>>

\* The awaited call resolves: assistantMessage, then finally.
Resolve ==
  \E request \in inflight, response \in Responses :
    LET assistantMessage == Message(RandomUUID(1), "assistant",
                                    ReplyContent(response), now)
    IN /\ messages' = AppendMessage(messages, assistantMessage)
       /\ isLoading' = FinallyClause("resolved")
       /\ inflight' = inflight \ {request}
       /\ uuidCount' = uuidCount + 1
       /\ lastEvent' = Event("resolve", response)
       /\ UNCHANGED <<input, rendered, dispatched, now, uncaught>>

\* The awaited call rejects: catch, then finally.
Reject ==
  \E request \in inflight, error \in Errors :
    LET caught == CatchClause(error)
        errorMessage == Message(RandomUUID(1), "assistant",
                                caught.content, now)
    IN /\ messages' = AppendMessage(messages, errorMessage)
       /\ isLoading' = FinallyClause("rejected")
       /\ inflight' = (inflight \ {request})
                         \cup Retry(caught, request.contents)
       /\ dispatched' =
            dispatched + Cardinality(Retry(caught, request.contents))
       /\ uuidCount' = uuidCount + 1
       /\ uncaught' = IF caught.rethrown THEN uncaught \cup {error}
                                         ELSE uncaught
       /\ lastEvent' = Event("reject", error)
       /\ UNCHANGED <<input, rendered, now>>

Next ==
  \/ InputChange
  \/ Render
  \/ Tick
  \/ SubmitRejected
  \/ SubmitDispatched
  \/ SubmitThrew
  \/ Resolve
  \/ Reject

Spec == Init /\ [][Next]_vars

\* ---------------------------------------------------------------- helpers
\* The step is a call of handleSubmit (Tick alone keeps lastEvent).
SubmitStep == lastEvent'.op = "submit" /\ now' = now

\* The step is the continuation of handleSubmit after the awaited call:
\* a request leaves inflight.
CompletionStep == inflight' # inflight /\ inflight' \subseteq inflight

ResolveStep == CompletionStep /\ lastEvent'.op = "resolve"

RejectStep == CompletionStep /\ lastEvent'.op = "reject"

\* The step is a call of handleSubmit that threw inside the try block
\* before the request was made.
ThrewStep == SubmitStep /\ lastEvent'.arg.threw /\ uuidCount' # uuidCount

Last(log) == log[Len(log)]

IsPrefix(s, t) == Len(s) <= Len(t) /\ SubSeq(t, 1, Len(s)) = s

\* The user messages at the end of the log that have no reply after them.
PendingUsers(log) ==
  Cardinality({i \in DOMAIN log :
                 \A j \in DOMAIN log : j >= i => log[j].role = "user"})

UserCount(log) == Cardinality({i \in DOMAIN log : log[i].role = "user"})

\* The step appends exactly one message to the log.
AppendsOne == Len(messages') = Len(messages) + 1 /\ IsPrefix(messages, messages')

\* ------------------------------------------------------------------ claims
\* C1: only one request is ever in flight: in every reachable state the
\* number of dispatched-but-unresolved service calls is at most 1.
C1_OneInFlight == Cardinality(inflight) <= 1

\* C2: in every reachable state the log alternates user, assistant, user,
\* assistant, ... starting with a user message.
C2_Alternates ==
  \A i \in DOMAIN messages :
    messages[i].role = IF i % 2 = 1 THEN "user" ELSE "assistant"

C4_NoOpWhileLoading ==
  [][ /\ isLoading' => PendingUsers(messages') = 1
      /\ (SubmitStep /\ isLoading) =>
            UNCHANGED <<messages, input, isLoading, inflight, dispatched>>
    ]_vars

\* C5: a submit whose input is empty or white space only is a no-op in any
\* state: log, input buffer and flag are unchanged, no request is made.
C5_BlankIsNoOp ==
  [][ (SubmitStep /\ Trim(rendered.input) = <<>>) =>
        /\ ~lastEvent'.arg.accepted
        /\ UNCHANGED <<messages, input, isLoading, rendered, inflight,
                       dispatched, uuidCount, uncaught>>
    ]_vars

\* handleSubmit has just returned at its guard on a white-space-only input
\* while no request was outstanding; the buffer still holds the text.
C5_Witness ==
  /\ lastEvent = Event("submit", [accepted |-> FALSE, threw |-> FALSE])
  /\ rendered.input = <<" ">>
  /\ input = <<" ">>
  /\ ~rendered.isLoading
  /\ ~isLoading

C7_FailureIsSynthetic ==
  [][ /\ RejectStep =>
           /\ AppendsOne
           /\ Last(messages').role = "assistant"
           /\ Last(messages').content = ERROR_TEXT
           /\ isLoading' = FALSE
           /\ uncaught' = {}
      /\ ThrewStep =>
           /\ Len(messages') = Len(messages) + 2
           /\ IsPrefix(messages, messages')
           /\ messages'[Len(messages) + 1].role = "user"
           /\ Last(messages').role = "assistant"
           /\ Last(messages').content = ERROR_TEXT
           /\ isLoading' = FALSE
           /\ uncaught' = {}
    ]_vars

\* The call of the first submission has just rejected with "api".
C7_Witness ==
  /\ lastEvent = Event("reject", "api")
  /\ Len(messages) = 2
  /\ messages[1].role = "user"
  /\ messages[2].role = "assistant"
  /\ messages[2].content = ERROR_TEXT
  /\ ~isLoading
  /\ inflight = {}
  /\ uncaught = {}

\* C8: the request carries the trimmed submitted text as its prompt, and
\* after a response with non-empty text t the log gains exactly one
\* assistant message whose content is t, unchanged.
C8_ReplyVerbatim ==
  [][ /\ \A request \in inflight' \ inflight :
           request.contents = Trim(rendered.input)
      /\ ( /\ ResolveStep
           /\ lastEvent'.arg.present
           /\ lastEvent'.arg.text # <<>> ) =>
           /\ AppendsOne
           /\ Last(messages').role = "assistant"
           /\ Last(messages').content = lastEvent'.arg.text
    ]_vars

\* The request for the input " a " has just resolved with the text " a",
\* which is in the log with its leading white space.
C8_Witness ==
  /\ lastEvent = Event("resolve", [present |-> TRUE, text |-> <<" ", "a">>])
  /\ Len(messages) = 2
  /\ messages[1].role = "user"
  /\ messages[1].content = <<"a">>
  /\ messages[2].role = "assistant"
  /\ messages[2].content = <<" ", "a">>

\* C9: after a response whose text is absent or empty the log gains
\* exactly one assistant message whose content is the fixed fallback
\* string, which is not the error string; the flag is cleared and nothing
\* is handled as an error.
C9_EmptyReplyFallback ==
  [][ ( /\ ResolveStep
        /\ (~lastEvent'.arg.present \/ lastEvent'.arg.text = <<>>) ) =>
        /\ AppendsOne
        /\ Last(messages').role = "assistant"
        /\ Last(messages').content = FALLBACK_TEXT
        /\ Last(messages').content # ERROR_TEXT
        /\ isLoading' = FALSE
        /\ uncaught' = uncaught
    ]_vars

\* The request has just resolved with an empty text.
C9_Witness ==
  /\ lastEvent = Event("resolve", [present |-> TRUE, text |-> <<>>])
  /\ Len(messages) = 2
  /\ messages[2].role = "assistant"
  /\ messages[2].content = FALLBACK_TEXT
  /\ ~isLoading

\* C10: the log is append-only: in every step the log before is a prefix
\* of the log after.
C10_AppendOnly == [][IsPrefix(messages, messages')]_vars

\* Two submissions have been answered, one by the error message and one by
\* a reply: the log has grown four times.
C10_Witness ==
  /\ Len(messages) = 4
  /\ messages[2].content = ERROR_TEXT
  /\ messages[4].content = <<" ", "a">>
  /\ dispatched = 2

\* C11 (as claimed): the number of requests dispatched so far equals the
\* number of user messages in the log.
C11_OncePerUserMessage == dispatched = UserCount(messages)

\* C11 (amended): every accepted submission dispatches exactly one request,
\* except that it dispatches none when its try block throws before the
\* call; a rejected call and a throw before the call append their one
\* error message and dispatch no further request, and a resolved call
\* dispatches none either.
C11_AtMostOncePerSubmission ==
  [][ /\ dispatched' - dispatched =
           (UserCount(messages') - UserCount(messages))
             - (IF ThrewStep THEN 1 ELSE 0)
      /\ Cardinality(inflight' \ inflight) = dispatched' - dispatched
      /\ (lastEvent'.op \in {"reject", "resolve"}
            /\ uuidCount' # uuidCount) =>
           /\ dispatched' = dispatched
           /\ inflight' \subseteq inflight
           /\ UserCount(messages') = UserCount(messages)
      /\ ThrewStep =>
           /\ dispatched' = dispatched
           /\ inflight' = inflight
    ]_vars

\* One submission threw before its call and one was dispatched and then
\* rejected: two user messages, two error messages, one request in all.
C11_Witness ==
  /\ Len(messages) = 4
  /\ UserCount(messages) = 2
  /\ messages[2].content = ERROR_TEXT
  /\ messages[4].content = ERROR_TEXT
  /\ dispatched = 1
  /\ inflight = {}
  /\ lastEvent.op = "reject"

\* C12: message ids are pairwise distinct across the whole log, for user,
\* assistant and error messages alike, whatever the order of submissions
\* and completions; an id once given is never given again.
C12_UniqueIds ==
  /\ \A i, j \in DOMAIN messages :
       messages[i].id = messages[j].id => i = j
  /\ \A i \in DOMAIN messages : messages[i].id <= uuidCount

\* The log holds a user message, an error message made in the same call of
\* handleSubmit, a second user message and a reply, with four ids, all
\* made within the same tick of the clock.
C12_Witness ==
  /\ Len(messages) = 4
  /\ messages[1].role = "user"
  /\ messages[2].content = ERROR_TEXT
  /\ messages[3].role = "user"
  /\ messages[4].content = <<" ", "a">>
  /\ Cardinality({messages[i].id : i \in DOMAIN messages}) = 4
  /\ \A i \in DOMAIN messages : messages[i].timestamp = 0

\* C13: in every state a render shows, the flag is set exactly when the
\* last entry of the log is a user message that has no reply yet, that is,
\* exactly when the length of the log is odd; the first render shows an
\* empty log and a cleared flag.
C13_FlagIffReplyMissing ==
  /\ rendered.isLoading <=>
       (rendered.messages # <<>> /\ Last(rendered.messages).role = "user")
  /\ rendered.isLoading <=> (Len(rendered.messages) % 2 = 1)
  /\ lastEvent.op = "mount" =>
       rendered = [messages |-> <<>>, input |-> <<>>, isLoading |-> FALSE]

\* The step is a run of the onChange handler of the input field.
ChangeStep == lastEvent'.op = "change"

\* C14: an input-buffer update is accepted in every state, also while a
\* request is outstanding, and changes only the input buffer: the log, the
\* flag, the requests in flight and their prompts stay as they are; the
\* completion of a request, resolved or rejected, leaves the input buffer
\* unchanged.
C14_InputIndependent ==
  /\ [](ENABLED InputChange)
  /\ [][ /\ ChangeStep =>
              /\ input' \in InputTexts
              /\ UNCHANGED <<messages, isLoading, rendered, inflight,
                             dispatched, uuidCount, uncaught>>
         /\ CompletionStep => input' = input
       ]_vars

\* The text "a" was typed while the request was outstanding and is still
\* in the buffer now that the request has resolved and the flag is
\* cleared; the reply answers the message sent before it was typed.
C14_Witness ==
  /\ lastEvent.op = "resolve"
  /\ input = <<"a">>
  /\ rendered.input = <<"a">>
  /\ rendered.isLoading
  /\ ~isLoading
  /\ Len(messages) = 2
  /\ messages[1].role = "user"
  /\ messages[2].role = "assistant"
  /\ inflight = {}

====
